---- MODULE Spec2Model ----
(***************************************************************************)
(* volume-ctl (src/main.rs): a command line tool that reads the volume of  *)
(* the default sink or source from the sound server, applies one volume    *)
(* command, writes volume and mute flag back and shows a notification.     *)
(*                                                                         *)
(* The program is sequential; the sound server and its main loop are the   *)
(* environment.  Every call of Mainloop::iterate is one step whose result  *)
(* (Success / Quit(code) / Err) and whose dispatched callbacks are chosen  *)
(* by the environment.                                                     *)
(*                                                                         *)
(* f64 values are held in fixed point: the f64 x is the integer            *)
(* x * F64One.  F64One = 3 * (NORMAL - MUTED), so every percentage of a    *)
(* native level, every whole percentage and the icon thresholds 100/3 and  *)
(* 200/3 are exact.                                                        *)
(***************************************************************************)
EXTENDS Integers, Sequences, FiniteSets, TLC

VARIABLES
    pc,            \* position of the program
    call,          \* the adapter call in progress: "get", "set_volume", "set_mute"
    ctxState,      \* Context::get_state()
    connTick,      \* result of the last iterate() of run_until
    connected,     \* connect() returned Ok(context)
    ticks,         \* iterate() calls made by the loop in progress
    dev,           \* the device as the sound server holds it
    cls,           \* Command::Output or Command::Input
    cmd,           \* the VolumeCommand
    volumes,       \* the local Volumes struct of run_*_command
    readVolumes,   \* the Volumes struct as get_*_volumes returned it
    slot,          \* per call: the Arc<Mutex<Option<T>>> its run() created
    reply,         \* the request of the run() in progress: "none", "pending", "done"
    requests,      \* requests handed to the sound server, in order
    returned,      \* per call: what run() returned
    quit,          \* the Quit the main loop reported, if any
    issuedAtQuit,  \* Len(requests) when the Quit was reported
    exitCode,      \* exit status of the process
    notification,  \* the notification handed to the notification daemon
    tin,           \* input of the icon selection, checked on its own (IconSpec)
    tout           \* its output

vars == <<pc, call, ctxState, connTick, connected, ticks, dev, cls, cmd, volumes,
          readVolumes, slot, reply, requests, returned, quit, issuedAtQuit, exitCode, notification, tin, tout>>

\* ------------------------------------------------------------------ bounds

\* Channels of a device.
MaxChannels == 2
\* iterate() calls one loop (run_until of connect, or one run) may make.
MaxTicks == 2

\* ------------------------------------------------------- program constants

\* libpulse Volume::MUTED and Volume::NORMAL.
VOLUME_MUTED == 0
VOLUME_NORMAL == 65536
\* The clamp of map_volumes.
MinPercent == 0
MaxPercent == 125
\* Notification ids.
OutputNotificationId == 1236139783
InputNotificationId == 1236139784

\* ------------------------------------------------------------- f64 values

range == VOLUME_NORMAL - VOLUME_MUTED

\* The f64 1.0 in fixed point.
F64One == 3 * range

\* The f64 of a whole number.
F(x) == x * F64One

\* f64::clamp
F64Clamp(x, lo, hi) == IF x < lo THEN lo ELSE IF x > hi THEN hi ELSE x

\* f64::round: half away from zero (levels are never negative here).
F64Round(x) == (2 * x + F64One) \div (2 * F64One)

\* format!("{:.0}"): the exact value, rounded half to even.
F64Format0(x) ==
    LET q == x \div F64One
        r == x % F64One
    IN  IF 2 * r < F64One THEN q
        ELSE IF 2 * r > F64One THEN q + 1
        ELSE IF q % 2 = 0 THEN q ELSE q + 1

\* ------------------------------------------------------------ conversions

\* (volume - MUTED) * 100.0 / range.  F64One is a multiple of range, so the
\* division is carried out first.
volume_to_percentage(volume) ==
    ((volume - VOLUME_MUTED) * 100) * (F64One \div range)

\* (MUTED + factor * range / 100.0) as u32: the cast truncates toward zero
\* and saturates, a negative value gives 0.  One native unit is the f64
\* 100 / range, that is 100 * (F64One \div range) in fixed point.
percentage_to_volume(factor) ==
    LET unit == 100 * (F64One \div range)
        sum == VOLUME_MUTED * unit + factor
    IN  IF sum < 0 THEN 0 ELSE sum \div unit

\* The closures apply_volume_command gives to map_volumes: |x| x + value,
\* |x| x - value and |_| value.
volume_action(command, x) ==
    CASE command.op = "Up" -> x + F(command.value)
      [] command.op = "Down" -> x - F(command.value)
      [] command.op = "Set" -> F(command.value)

\* map_volumes without the clamp.
map_volumes_unclamped(channels, command) ==
    [i \in DOMAIN channels |->
        percentage_to_volume(
            volume_action(command, volume_to_percentage(channels[i])))]

\* Apply the closure of a command to all channel volumes.
map_volumes(channels, command) ==
    [i \in DOMAIN channels |->
        percentage_to_volume(
            F64Clamp(volume_action(command, volume_to_percentage(channels[i])),
                     F(MinPercent), F(MaxPercent)))]

\* ---------------------------------------------------------------- commands

ValueOps == {"Up", "Down", "Set"}
MuteOps == {"Mute", "Unmute", "ToggleMute"}

\* apply_volume_command where Mute silences the channels as well.
apply_volume_command_mute_zero(v, command) ==
    CASE command.op = "Up" ->
            [v EXCEPT !.channels = map_volumes(@, command)]
      [] command.op = "Down" ->
            [v EXCEPT !.channels = map_volumes(@, command)]
      [] command.op = "Set" ->
            [v EXCEPT !.channels = map_volumes(@, command)]
      [] command.op = "Mute" ->
            [muted |-> TRUE, channels |-> [i \in DOMAIN v.channels |-> VOLUME_MUTED]]
      [] command.op = "Unmute" -> [v EXCEPT !.muted = FALSE]
      [] command.op = "ToggleMute" -> [v EXCEPT !.muted = ~ @]

apply_volume_command(v, command) ==
    CASE command.op = "Up" ->
            [v EXCEPT !.channels = map_volumes(@, command)]
      [] command.op = "Down" ->
            [v EXCEPT !.channels = map_volumes(@, command)]
      [] command.op = "Set" ->
            [v EXCEPT !.channels = map_volumes(@, command)]
      [] command.op = "Mute" -> [v EXCEPT !.muted = TRUE]
      [] command.op = "Unmute" -> [v EXCEPT !.muted = FALSE]
      [] command.op = "ToggleMute" -> [v EXCEPT !.muted = ~ @]

\* ------------------------------------------------------------ result slots

Calls == {"get", "set_volume", "set_mute"}

None == [tag |-> "None"]
Ok(v) == [tag |-> "Ok", val |-> v]
Err == [tag |-> "Err"]
Unit == "()"

\* Arc::new(Mutex::new(None)), with the history of the cell: the writes of
\* a value, the take() calls that found one, and the value last written.
EmptyCell == [value |-> None, writes |-> 0, takes |-> 0, written |-> None]

\* *output.lock().unwrap() = Some(v)
Write(cell, v) == [cell EXCEPT !.value = v, !.writes = @ + 1, !.written = v]

\* output.lock().unwrap().take()
Take(cell) ==
    IF cell.value = None THEN cell
    ELSE [cell EXCEPT !.value = None, !.takes = @ + 1]

NoVolumes == [muted |-> FALSE, channels |-> <<>>]

\* ListResult values of get_sink_info_by_name / get_source_info_by_name.
Item(d) == [kind |-> "Item", mute |-> d.muted, volume |-> d.channels]
End == [kind |-> "End", mute |-> FALSE, volume |-> <<>>]
Error == [kind |-> "Error", mute |-> FALSE, volume |-> <<>>]

\* The callback sequences one reply to a by-name query makes: the entry
\* and the end of the list, an error, or a list that ends without an entry.
GetReplies(d) == {<<Item(d), End>>, <<Error>>, <<End>>}

\* The list callback with an End arm that stores a failure.
get_volumes_callback_end_writes(cell, info) ==
    CASE info.kind = "Item" ->
            Write(cell, Ok([muted |-> info.mute, channels |-> info.volume]))
      [] info.kind = "End" -> Write(cell, Err)
      [] info.kind = "Error" -> Write(cell, Err)

\* The closure given to get_sink_info_by_name / get_source_info_by_name.
get_volumes_callback(cell, info) ==
    CASE info.kind = "Item" ->
            Write(cell, Ok([muted |-> info.mute, channels |-> info.volume]))
      [] info.kind = "End" -> cell
      [] info.kind = "Error" -> Write(cell, Err)

\* The closure given to set_*_volume_by_name / set_*_mute_by_name.
success_callback(cell, success) ==
    IF success THEN Write(cell, Ok(Unit)) ELSE Write(cell, Err)

\* One dispatch of the main loop calling the list callback for a reply.
RECURSIVE Dispatch(_, _)
Dispatch(cell, infos) ==
    IF infos = <<>> THEN cell
    ELSE Dispatch(get_volumes_callback(cell, Head(infos)), Tail(infos))

\* ------------------------------------------------------------- main loop

QuitCodes == {0, 3}

IterateResults ==
    {[kind |-> "Success", code |-> 0], [kind |-> "Err", code |-> 0]}
        \cup {[kind |-> "Quit", code |-> c] : c \in QuitCodes}

NoQuit == [seen |-> FALSE, code |-> 0]

ContextStates ==
    {"Unconnected", "Connecting", "Authorizing", "SettingName", "Ready",
     "Failed", "Terminated"}

\* The handshake of the context.
Rank(s) ==
    CASE s = "Connecting" -> 1
      [] s = "Authorizing" -> 2
      [] s = "SettingName" -> 3
      [] s = "Ready" -> 4
      [] OTHER -> 5

\* The states the callbacks dispatched by one iterate() can leave the
\* context in.  A failing iterate() dispatches nothing.
NextStates(s, res) ==
    IF res.kind = "Err" THEN {s}
    ELSE {t \in ContextStates : Rank(t) >= Rank(s)}

\* The condition closure of connect with Authorizing taken as final.
connect_condition_early(state) ==
    state \in {"Ready", "Failed", "Unconnected", "Terminated", "Authorizing"}

\* The condition closure connect gives to run_until.
connect_condition(state) ==
    state \in {"Ready", "Failed", "Unconnected", "Terminated"}

\* One turn of the loop of run_until: "Err" for Err(e), "OkSome" for
\* Ok(Some(code)), "OkNone" for Ok(None), "Loop" for another turn.
run_until_step(res, state) ==
    IF res.kind = "Err" THEN "Err"
    ELSE IF res.kind = "Quit" THEN "OkSome"
    ELSE IF connect_condition(state) THEN "OkNone"
    ELSE "Loop"

\* What connect returns once run_until has returned.
connect_result(outcome, state) ==
    IF outcome = "Err" THEN "Err"
    ELSE IF state = "Ready" THEN "Ok"
    ELSE "Err"

\* --------------------------------------------------------- run_*_command

\* run_*_command going on after a failed set-volume.
after_call_unchecked(c, value) ==
    CASE c = "get" -> IF value.tag = "Ok" THEN "set_volume" ELSE "fail"
      [] c = "set_volume" -> "set_mute"
      [] c = "set_mute" -> IF value.tag = "Ok" THEN "notify" ELSE "fail"

\* What run_output_command / run_input_command does with the result of an
\* adapter call: the `?` returns Err(()), otherwise the next statement.
after_call(c, value) ==
    IF value.tag # "Ok" THEN "fail"
    ELSE CASE c = "get" -> "set_volume"
           [] c = "set_volume" -> "set_mute"
           [] c = "set_mute" -> "notify"

\* The request a call hands to the introspection API.
Request(c, device, v) ==
    [kind |-> c,
     device |-> device,
     channels |-> IF c = "set_volume" THEN v.channels ELSE <<>>,
     muted |-> IF c = "set_mute" THEN v.muted ELSE FALSE]

DeviceName(class) ==
    IF class = "Output" THEN "@DEFAULT_SINK@" ELSE "@DEFAULT_SOURCE@"

\* The sound server carrying out a request it answers with success.
Served(d, req) ==
    CASE req.kind = "set_volume" -> [d EXCEPT !.channels = req.channels]
      [] req.kind = "set_mute" -> [d EXCEPT !.muted = req.muted]
      [] OTHER -> d

\* ----------------------------------------------------------- notification

Max(S) == CHOOSE x \in S : \A y \in S : y <= x

\* ChannelVolumes::max
ChannelMax(channels) == Max({channels[i] : i \in DOMAIN channels})

\* The icon of show_notification with the first comparison strict.
icon_name_strict(prefix, muted, max_volume) ==
    IF muted THEN [prefix |-> prefix, level |-> "muted"]
    ELSE IF max_volume < F(100) \div 3 THEN [prefix |-> prefix, level |-> "low"]
    ELSE IF max_volume < (F(100) * 2) \div 3 THEN [prefix |-> prefix, level |-> "medium"]
    ELSE [prefix |-> prefix, level |-> "high"]

\* The icon of show_notification: format!("{icon_prefix}-<level>").
icon_name(prefix, muted, max_volume) ==
    IF muted THEN [prefix |-> prefix, level |-> "muted"]
    ELSE IF max_volume <= F(100) \div 3 THEN [prefix |-> prefix, level |-> "low"]
    ELSE IF max_volume < (F(100) * 2) \div 3 THEN [prefix |-> prefix, level |-> "medium"]
    ELSE [prefix |-> prefix, level |-> "high"]

NoNotification ==
    [shown |-> FALSE, name |-> "", muted |-> FALSE, percent |-> 0,
     icon |-> [prefix |-> "", level |-> ""], id |-> 0, value |-> 0,
     delivered |-> FALSE]

\* The notification show_notification builds.
show_notification(name, icon_prefix, id, v, delivered) ==
    LET max_volume == volume_to_percentage(ChannelMax(v.channels))
    IN  [shown |-> TRUE,
         name |-> name,
         muted |-> v.muted,
         percent |-> F64Format0(max_volume),
         icon |-> icon_name(icon_prefix, v.muted, max_volume),
         id |-> id,
         value |-> F64Round(max_volume),
         delivered |-> delivered]

\* show_notification returning the failure of Notification::show.
show_result_escalated(delivered) == IF delivered THEN "Ok" ELSE "Err"

\* run_*_command after show_notification: the failure is logged, `.ok()`
\* drops it, and Ok(()) is returned.
show_result(delivered) == "Ok"

\* main: Err(()) of do_main becomes std::process::exit(1).
main_status(result) == IF result = "Ok" THEN 0 ELSE 1

\* ------------------------------------------------------------------ inputs

\* Native levels a device reports: 50%, 120% (to the native unit), 150%.
NativeLevels == {32768, 78643, 98304}

ChannelVolumes == UNION {[1..n -> NativeLevels] : n \in 1..MaxChannels}

Devices == [muted : BOOLEAN, channels : ChannelVolumes]

\* PERCENTAGE arguments.
PercentValues == {-20, 10, 130}

VolumeCommands ==
    [op : ValueOps, value : PercentValues] \cup [op : MuteOps, value : {0}]

Classes == {"Output", "Input"}

NoIconInput == [prefix |-> "", muted |-> FALSE, level |-> 0]

\* ------------------------------------------------------------------- state

Init ==
    /\ pc = "start"
    /\ call = "get"
    /\ ctxState = "Unconnected"
    /\ connTick = "none"
    /\ connected = FALSE
    /\ ticks = 0
    /\ dev \in Devices
    /\ cls \in Classes
    /\ cmd \in VolumeCommands
    /\ volumes = NoVolumes
    /\ readVolumes = NoVolumes
    /\ slot = [c \in Calls |-> EmptyCell]
    /\ reply = "none"
    /\ requests = <<>>
    /\ returned = [c \in Calls |-> [tag |-> "NotReturned"]]
    /\ quit = NoQuit
    /\ issuedAtQuit = 0
    /\ exitCode = -1
    /\ notification = NoNotification
    /\ tin = NoIconInput
    /\ tout = [prefix |-> "", level |-> ""]

\* std::process::exit(code), or main returning.
Exit(code) ==
    /\ pc' = "exited"
    /\ exitCode' = code

\* do_main up to the loop of connect: Mainloop::new, Context::new and
\* Context::connect, each of which may fail.
Bootstrap ==
    /\ pc = "start"
    /\ \E ok \in BOOLEAN :
        IF ok
        THEN /\ pc' = "connecting"
             /\ ctxState' = "Connecting"
             /\ exitCode' = exitCode
        ELSE /\ Exit(main_status("Err"))
             /\ ctxState' = ctxState
    /\ UNCHANGED <<call, connTick, connected, ticks, dev, cls, cmd, volumes,
                   readVolumes, slot, reply, requests, returned, quit,
                   issuedAtQuit, notification, tin, tout>>

\* One turn of run_until inside connect and, when run_until returns, the
\* rest of connect, do_main and main.
ConnectIterate ==
    /\ pc = "connecting"
    /\ ticks < MaxTicks
    /\ \E res \in IterateResults : \E s \in NextStates(ctxState, res) :
        LET outcome == run_until_step(res, s) IN
        /\ ctxState' = s
        /\ connTick' = res.kind
        /\ quit' = IF res.kind = "Quit" THEN [seen |-> TRUE, code |-> res.code]
                   ELSE quit
        /\ issuedAtQuit' = IF res.kind = "Quit" THEN Len(requests) ELSE issuedAtQuit
        /\ IF outcome = "Loop"
           THEN /\ ticks' = ticks + 1
                /\ UNCHANGED <<pc, call, connected, exitCode>>
           ELSE IF connect_result(outcome, s) = "Ok"
           THEN /\ connected' = TRUE
                /\ pc' = "run_op"
                /\ call' = "get"
                /\ ticks' = 0
                /\ exitCode' = exitCode
           ELSE /\ Exit(main_status("Err"))
                /\ ticks' = ticks + 1
                /\ UNCHANGED <<call, connected>>
    /\ UNCHANGED <<dev, cls, cmd, volumes, readVolumes, slot, reply, requests,
                   returned, notification, tin, tout>>

\* run: a new slot, and the operation closure issuing its request.
RunOperation ==
    /\ pc = "run_op"
    /\ slot' = [slot EXCEPT ![call] = EmptyCell]
    /\ requests' = Append(requests, Request(call, DeviceName(cls), volumes))
    /\ reply' = "pending"
    /\ ticks' = 0
    /\ pc' = "run_check"
    /\ UNCHANGED <<call, ctxState, connTick, connected, dev, cls, cmd, volumes,
                   readVolumes, returned, quit, issuedAtQuit, exitCode,
                   notification, tin, tout>>

\* run: the check of the slot at the head of the loop.  When it holds a
\* value run returns it and run_*_command goes on to its next statement.
RunCheck ==
    /\ pc = "run_check"
    /\ slot' = [slot EXCEPT ![call] = Take(@)]
    /\ IF slot[call].value = None
       THEN /\ pc' = "run_iterate"
            /\ UNCHANGED <<call, volumes, readVolumes, returned, exitCode>>
       ELSE LET value == slot[call].value
                step == after_call(call, value)
            IN  /\ returned' = [returned EXCEPT ![call] = value]
                /\ IF step = "fail"
                   THEN /\ Exit(main_status("Err"))
                        /\ UNCHANGED <<call, volumes, readVolumes>>
                   ELSE IF step = "notify"
                   THEN /\ pc' = "notify"
                        /\ UNCHANGED <<call, volumes, readVolumes, exitCode>>
                   ELSE /\ pc' = "run_op"
                        /\ call' = step
                        /\ IF call = "get"
                           THEN /\ readVolumes' = value.val
                                /\ volumes' = apply_volume_command(value.val, cmd)
                           ELSE UNCHANGED <<volumes, readVolumes>>
                        /\ exitCode' = exitCode
    /\ UNCHANGED <<ctxState, connTick, connected, ticks, dev, cls, cmd, reply,
                   requests, quit, issuedAtQuit, notification, tin, tout>>

\* run: main_loop.iterate(true).  The reply of the pending request may be
\* dispatched by a successful turn.
RunIterate ==
    /\ pc = "run_iterate"
    /\ ticks < MaxTicks
    /\ ticks' = ticks + 1
    /\ \E res \in IterateResults :
        CASE res.kind = "Err" ->
                /\ returned' = [returned EXCEPT ![call] = [tag |-> "LoopErr"]]
                /\ Exit(main_status("Err"))
                /\ UNCHANGED <<slot, reply, dev, quit, issuedAtQuit>>
          [] res.kind = "Quit" ->
                /\ quit' = [seen |-> TRUE, code |-> res.code]
                /\ issuedAtQuit' = Len(requests)
                /\ Exit(res.code)
                /\ UNCHANGED <<slot, reply, dev, returned>>
          [] res.kind = "Success" ->
                /\ pc' = "run_check"
                /\ UNCHANGED <<returned, quit, issuedAtQuit, exitCode>>
                /\ \E deliver \in (IF reply = "pending" THEN BOOLEAN ELSE {FALSE}) :
                    IF ~ deliver
                    THEN UNCHANGED <<slot, reply, dev>>
                    ELSE /\ reply' = "done"
                         /\ IF call = "get"
                            THEN /\ \E infos \in GetReplies(dev) :
                                     slot' = [slot EXCEPT ![call] = Dispatch(@, infos)]
                                 /\ dev' = dev
                            ELSE \E success \in BOOLEAN :
                                 /\ slot' = [slot EXCEPT ![call] = success_callback(@, success)]
                                 /\ dev' = IF success
                                           THEN Served(dev, requests[Len(requests)])
                                           ELSE dev
    /\ UNCHANGED <<call, ctxState, connTick, connected, cls, cmd, volumes,
                   readVolumes, requests, notification, tin, tout>>

\* show_notification, Ok(()) of run_*_command, and main returning.
ShowNotification ==
    /\ pc = "notify"
    /\ \E delivered \in BOOLEAN :
        /\ notification' =
              IF cls = "Output"
              THEN show_notification("Volume", "audio-volume",
                                     OutputNotificationId, volumes, delivered)
              ELSE show_notification("Microphone", "microphone-sensitivity",
                                     InputNotificationId, volumes, delivered)
        /\ Exit(main_status(show_result(delivered)))
    /\ UNCHANGED <<call, ctxState, connTick, connected, ticks, dev, cls, cmd,
                   volumes, readVolumes, slot, reply, requests, returned, quit,
                   issuedAtQuit, tin, tout>>

Next ==
    \/ Bootstrap
    \/ ConnectIterate
    \/ RunOperation
    \/ RunCheck
    \/ RunIterate
    \/ ShowNotification

Spec == Init /\ [][Next]_vars

\* ------------------------------------------- show_notification on its own

\* Native levels around the icon thresholds: 0%, the two levels on either
\* side of 100/3 %, 60% (to the native unit), the two levels on either side
\* of 200/3 %, and 125%.
IconNatives == {0, 21845, 21846, 39321, 43690, 43691, 81920}

\* f64 levels: the thresholds themselves, their neighbours, 60% and the
\* percentages of the native levels above.
IconLevels ==
    {F(100) \div 3, F(100) \div 3 - 1, F(100) \div 3 + 1,
     (F(100) * 2) \div 3, (F(100) * 2) \div 3 - 1, (F(100) * 2) \div 3 + 1,
     F(0), F(60), F(100), F(125)}
        \cup {volume_to_percentage(v) : v \in IconNatives}

IconPrefixes == {"audio-volume", "microphone-sensitivity"}

\* The states in which show_notification is called: a mute or unmute
\* command has been carried out, every request has succeeded and `volumes`
\* holds the state after the command.
NotifyInit ==
    /\ pc = "notify"
    /\ call = "set_mute"
    /\ ctxState = "Ready"
    /\ connTick = "Success"
    /\ connected = TRUE
    /\ ticks = 1
    /\ cls \in Classes
    /\ volumes \in [muted : BOOLEAN,
                    channels : UNION {[1..n -> IconNatives] : n \in 1..MaxChannels}]
    /\ cmd = [op |-> IF volumes.muted THEN "Mute" ELSE "Unmute", value |-> 0]
    /\ readVolumes = [volumes EXCEPT !.muted = FALSE]
    /\ dev = volumes
    /\ returned = [c \in Calls |-> IF c = "get" THEN Ok(readVolumes) ELSE Ok(Unit)]
    /\ slot = [c \in Calls |->
                 [value |-> None, writes |-> 1, takes |-> 1, written |-> returned[c]]]
    /\ reply = "done"
    /\ requests = <<Request("get", DeviceName(cls), NoVolumes),
                    Request("set_volume", DeviceName(cls), volumes),
                    Request("set_mute", DeviceName(cls), volumes)>>
    /\ quit = NoQuit
    /\ issuedAtQuit = 0
    /\ exitCode = -1
    /\ notification = NoNotification
    /\ tin = NoIconInput
    /\ tout = [prefix |-> "", level |-> ""]

\* The icon comparisons of show_notification given an f64 level directly.
LevelInit ==
    /\ pc = "icon"
    /\ call = "get"
    /\ ctxState = "Unconnected"
    /\ connTick = "none"
    /\ connected = FALSE
    /\ ticks = 0
    /\ cls = "Output"
    /\ volumes = NoVolumes
    /\ cmd = [op |-> "Mute", value |-> 0]
    /\ readVolumes = NoVolumes
    /\ dev = NoVolumes
    /\ returned = [c \in Calls |-> [tag |-> "NotReturned"]]
    /\ slot = [c \in Calls |-> EmptyCell]
    /\ reply = "none"
    /\ requests = <<>>
    /\ quit = NoQuit
    /\ issuedAtQuit = 0
    /\ exitCode = -1
    /\ notification = NoNotification
    /\ tin \in [prefix : IconPrefixes, muted : BOOLEAN, level : IconLevels]
    /\ tout = [prefix |-> "", level |-> ""]

IconInit == NotifyInit \/ LevelInit

\* The icon comparisons of show_notification applied to an f64 level.
IconApply ==
    /\ pc = "icon"
    /\ tout' = icon_name(tin.prefix, tin.muted, tin.level)
    /\ pc' = "icon_done"
    /\ UNCHANGED <<call, ctxState, connTick, connected, ticks, dev, cls, cmd,
                   volumes, readVolumes, slot, reply, requests, returned, quit,
                   issuedAtQuit, exitCode, notification, tin>>

IconNext ==
    \/ ShowNotification
    \/ IconApply

IconSpec == IconInit /\ [][IconNext]_vars

\* ------------------------------------------------------------------ claims

Order == <<"get", "set_volume", "set_mute">>

\* The command has been applied to the volumes read from the sound server.
Applied == returned["get"].tag = "Ok"

\* The level clamp(old% + X, 0, 125), clamp(old% - X, 0, 125) or
\* clamp(X, 0, 125) of a channel whose level was `old`, as an f64.
TargetLevel(old) ==
    LET p == volume_to_percentage(old)
        x == F(cmd.value)
        raw == CASE cmd.op = "Up" -> p + x
                 [] cmd.op = "Down" -> p - x
                 [] cmd.op = "Set" -> x
    IN  IF raw < F(0) THEN F(0) ELSE IF raw > F(125) THEN F(125) ELSE raw

\* C1: every channel level handed to a set-volume request lies in
\* [0%, 125%], whatever the device reported and whatever the command.
C1_WrittenLevelsInRange ==
    \A i \in 1..Len(requests) :
        requests[i].kind = "set_volume" =>
            \A j \in DOMAIN requests[i].channels :
                /\ volume_to_percentage(requests[i].channels[j]) >= F(0)
                /\ volume_to_percentage(requests[i].channels[j]) <= F(125)

\* C2 as stated: up / down / set replace each channel's level by exactly
\* clamp(old% + X, 0, 125) / clamp(old% - X, 0, 125) / clamp(X, 0, 125).
C2_LevelIsExactClamp ==
    (Applied /\ cmd.op \in ValueOps) =>
        /\ DOMAIN volumes.channels = DOMAIN readVolumes.channels
        /\ \A i \in DOMAIN volumes.channels :
              volume_to_percentage(volumes.channels[i])
                  = TargetLevel(readVolumes.channels[i])

\* C2 as amended: each channel's new level is, independently per channel,
\* the largest native level that does not exceed the clamped percentage
\* (the clamped percentage truncated to the native unit); a clamped
\* percentage of 0 or 125 is stored exactly, so set X with X outside
\* [0, 125] gives exactly 0% or 125% and 120% up 10 gives 125%.
C2_LevelIsTruncatedClamp ==
    (Applied /\ cmd.op \in ValueOps) =>
        /\ DOMAIN volumes.channels = DOMAIN readVolumes.channels
        /\ \A i \in DOMAIN volumes.channels :
              LET w == volumes.channels[i]
                  t == TargetLevel(readVolumes.channels[i])
              IN  /\ volume_to_percentage(w) <= t
                  /\ t < volume_to_percentage(w + 1)
                  /\ t = F(0) => volume_to_percentage(w) = F(0)
                  /\ t = F(125) => volume_to_percentage(w) = F(125)
                  /\ (cmd.op = "Set" /\ cmd.value < 0) => volume_to_percentage(w) = F(0)
                  /\ (cmd.op = "Set" /\ cmd.value > 125) => volume_to_percentage(w) = F(125)
                  /\ (cmd.op = "Up" /\ cmd.value = 10 /\ readVolumes.channels[i] = 78643)
                        => volume_to_percentage(w) = F(125)

\* Two channels at different levels, 50% and 150%, after up 10: 50% + 10
\* is stored as the native level 39321, just under 60%, and 150% as 125%.
C2_Witness ==
    /\ Applied
    /\ cmd = [op |-> "Up", value |-> 10]
    /\ readVolumes.channels = <<32768, 98304>>
    /\ volumes.channels = <<39321, 81920>>

\* C3: a quit request reported by the main loop ends the process at once
\* with the code of the request: no further request, no notification, no
\* other exit status.
C3_QuitTerminatesWithCode ==
    quit.seen =>
        /\ pc = "exited"
        /\ exitCode = quit.code
        /\ Len(requests) = issuedAtQuit
        /\ ~ notification.shown

ConnectFinished == pc \notin {"start", "connecting"} /\ connTick # "none"

TerminalStates == {"Ready", "Failed", "Unconnected", "Terminated"}

\* C4 as stated: connect leaves its loop only after a tick that left the
\* context in a terminal state, returns a handle exactly when that state
\* is ready, and otherwise the process exits with 1 with no request and no
\* notification.
C4_ConnectStopsAtTerminalState ==
    /\ pc = "connecting" => ctxState \notin TerminalStates
    /\ ConnectFinished =>
          /\ ctxState \in TerminalStates
          /\ connected <=> ctxState = "Ready"
          /\ ~ connected =>
                /\ pc = "exited"
                /\ exitCode = 1
                /\ requests = <<>>
                /\ ~ notification.shown

\* C4 as amended: connect keeps advancing while the tick succeeds and the
\* state is not terminal; it leaves its loop at the first tick that
\* reports an error or a quit request, or after which the state is
\* terminal.  It returns a handle exactly when the tick did not report an
\* error and the state is then ready; otherwise the process exits with 1
\* with no request and no notification.
C4_ConnectStopsAtTerminalStateOrLoopEnd ==
    /\ pc = "connecting" =>
          /\ ctxState \notin TerminalStates
          /\ connTick \in {"none", "Success"}
    /\ ConnectFinished =>
          /\ ctxState \in TerminalStates \/ connTick \in {"Err", "Quit"}
          /\ connected <=> (ctxState = "Ready" /\ connTick # "Err")
          /\ ~ connected =>
                /\ pc = "exited"
                /\ exitCode = 1
                /\ requests = <<>>
                /\ ~ notification.shown

\* The bootstrap ended after a successful tick with the context failed.
C4_Witness ==
    /\ ConnectFinished
    /\ connTick = "Success"
    /\ ctxState = "Failed"
    /\ ~ connected
    /\ pc = "exited"
    /\ exitCode = 1

AllSucceeded == connected /\ \A c \in Calls : returned[c].tag = "Ok"

\* C5 as stated: the exit status is 0 exactly when connection, get-volume,
\* set-volume and set-mute all succeeded and 1 when one of them did not;
\* the delivery of the notification does not change it.
C5_ExitStatus ==
    pc = "exited" =>
        /\ exitCode = 0 <=> AllSucceeded
        /\ ~ AllSucceeded => exitCode = 1
        /\ notification.shown => exitCode = 0

QuitInRun == quit.seen /\ issuedAtQuit > 0

\* C5 as amended: when the main loop reports a quit request during an
\* adapter call the exit status is the code of that request; in every
\* other run it is 0 exactly when connection, get-volume, set-volume and
\* set-mute all succeeded and 1 when one of them did not; the delivery of
\* the notification does not change it.
C5_ExitStatusUnlessQuit ==
    pc = "exited" =>
        /\ QuitInRun => exitCode = quit.code
        /\ ~ QuitInRun =>
              /\ exitCode = 0 <=> AllSucceeded
              /\ ~ AllSucceeded => exitCode = 1
        /\ notification.shown => (exitCode = 0 /\ AllSucceeded)

\* Every request succeeded, the notification was not delivered, exit 0.
C5_Witness ==
    /\ pc = "exited"
    /\ AllSucceeded
    /\ notification.shown
    /\ ~ notification.delivered
    /\ exitCode = 0

\* The icon level the claim gives for a mute flag and an f64 level.
ExpectedIcon(muted, level) ==
    IF muted THEN "muted"
    ELSE IF 3 * level <= 100 * F64One THEN "low"
    ELSE IF 3 * level < 200 * F64One THEN "medium"
    ELSE "high"

\* C6: the icon is '<prefix>-muted' when muted, whatever the level;
\* otherwise, with the level of the loudest channel, '-low' up to and
\* including 100/3, '-medium' below 200/3, '-high' from 200/3 on.
C6_IconSelection ==
    /\ tout.level # "" =>
          /\ tout.prefix = tin.prefix
          /\ tout.level = ExpectedIcon(tin.muted, tin.level)
          /\ (~ tin.muted /\ 3 * tin.level = 100 * F64One) => tout.level = "low"
          /\ (~ tin.muted /\ 3 * tin.level = 200 * F64One) => tout.level = "high"
          /\ (~ tin.muted /\ tin.level = 60 * F64One) => tout.level = "medium"
    /\ notification.shown =>
          /\ notification.icon.prefix =
                (IF cls = "Output" THEN "audio-volume" ELSE "microphone-sensitivity")
          /\ \E i \in DOMAIN volumes.channels :
                /\ \A j \in DOMAIN volumes.channels :
                      volumes.channels[j] <= volumes.channels[i]
                /\ notification.icon.level =
                      ExpectedIcon(volumes.muted,
                                   volume_to_percentage(volumes.channels[i]))

\* The level is exactly 100/3, not muted, and the icon is "low".
C6_Witness ==
    /\ ~ tin.muted
    /\ 3 * tin.level = 100 * F64One
    /\ tout.level = "low"

\* C7: mute / unmute / toggle-mute change only the mute flag, and the
\* levels handed to the set-volume request are the ones read; up / down /
\* set leave the mute flag as read.
C7_MuteCommandsKeepLevels ==
    Applied =>
        /\ cmd.op \in MuteOps =>
              /\ volumes.channels = readVolumes.channels
              /\ volumes.muted = (CASE cmd.op = "Mute" -> TRUE
                                    [] cmd.op = "Unmute" -> FALSE
                                    [] cmd.op = "ToggleMute" -> ~ readVolumes.muted)
              /\ \A i \in 1..Len(requests) :
                    requests[i].kind = "set_volume" =>
                        requests[i].channels = readVolumes.channels
        /\ cmd.op \in ValueOps =>
              /\ volumes.muted = readVolumes.muted
              /\ \A i \in 1..Len(requests) :
                    requests[i].kind = "set_mute" =>
                        requests[i].muted = readVolumes.muted

\* mute on a device at 150%: the set-volume request carries 150%.
C7_Witness ==
    /\ Applied
    /\ cmd.op = "Mute"
    /\ ~ readVolumes.muted
    /\ volumes.muted
    /\ Len(requests) >= 2
    /\ requests[2].kind = "set_volume"
    /\ requests[2].channels = <<98304>>

\* C8: requests are issued in the order get, set-volume, set-mute, each at
\* most once and only after the one before has returned a success; at
\* most one has not returned yet; the notification is shown only after
\* set-mute succeeded; a failed call is followed by no request and no
\* notification.
C8_RequestsInOrder ==
    /\ Len(requests) <= 3
    /\ \A i \in 1..Len(requests) :
          /\ requests[i].kind = Order[i]
          /\ i > 1 =>
                /\ returned[Order[i - 1]].tag = "Ok"
                /\ slot[Order[i - 1]].takes = 1
          /\ returned[Order[i]].tag \in {"Err", "LoopErr"} =>
                /\ Len(requests) = i
                /\ ~ notification.shown
    /\ Cardinality({i \in 1..Len(requests) :
                       returned[Order[i]].tag = "NotReturned"}) <= 1
    /\ notification.shown =>
          /\ Len(requests) = 3
          /\ returned["set_mute"].tag = "Ok"

\* set-volume failed: two requests were issued and nothing was shown.
C8_Witness ==
    /\ pc = "exited"
    /\ returned["set_volume"].tag = "Err"
    /\ Len(requests) = 2
    /\ ~ notification.shown

\* C9: the slot of a call is written at most once, a value is taken from
\* it at most once and only after it was written, nothing is left in or
\* written to the slot after that, and what run returns is the value that
\* was written.
C9_SlotWrittenOnceReadOnce ==
    \A c \in Calls :
        /\ slot[c].writes <= 1
        /\ slot[c].takes <= slot[c].writes
        /\ slot[c].takes = 1 =>
              /\ slot[c].value = None
              /\ returned[c].tag \in {"Ok", "Err"}
        /\ returned[c].tag \in {"Ok", "Err"} =>
              /\ slot[c].takes = 1
              /\ slot[c].writes = 1
              /\ returned[c] = slot[c].written

\* get-volume answered with an entry and the end of the list: one write,
\* one take, and the entry returned.
C9_Witness ==
    /\ slot["get"].writes = 1
    /\ slot["get"].takes = 1
    /\ returned["get"] = Ok(dev)

\* C10: once the sound server has answered the request of a call, the
\* call returns at its next check of the slot; it never waits on the main
\* loop for a request that has been answered.
C10_AnsweredCallReturns ==
    /\ (pc = "run_check" /\ reply = "done") => slot[call].value # None
    /\ pc = "run_iterate" => reply = "pending"

====
